---- MODULE Spec2Model ----
(***************************************************************************)
(* gen-docs: the File Writer (write-files.js), the Prompt Invoker          *)
(* (gemini.js), the Doc Update Orchestrator (llm-gen-docs.sh) and the      *)
(* Commit Replay Driver (the git script) as state machines.                *)
(*                                                                         *)
(* Strings whose characters matter (paths, file names, the prompt) are     *)
(* sequences of one-character strings, so that path.resolve, startsWith    *)
(* and trim are computed and not assumed.                                  *)
(***************************************************************************)
EXTENDS Integers, Sequences, FiniteSets, TLC

VARIABLES
    fs,          \* the filesystem: path -> NoFile | Dir | file content
    inputData,   \* File Writer: the document read from stdin
    idx,         \* File Writer: position of forEach in data.files
    wpc,         \* File Writer: control point
    wexit,       \* File Writer: exit code (Running until the process ends)
    wout,        \* File Writer: console.log lines
    werr,        \* File Writer: the error reported by the catch block
    fs0,         \* File Writer: the filesystem when the process started
    argv,        \* Prompt Invoker: process.argv.slice(2), as a count
    configFile,  \* Prompt Invoker: what the configuration file holds
    apiKey,      \* Prompt Invoker: process.env.GEMINI_API_KEY
    stdin,       \* Prompt Invoker: the characters on standard input
    userInput,   \* Prompt Invoker: the prompt read by readStdin()
    ppc,         \* Prompt Invoker: control point
    pexit,       \* Prompt Invoker: exit code (Running until the process ends)
    apiCalls,    \* Prompt Invoker: calls made to the external API
    pout,        \* Prompt Invoker: console.log lines (standard output)
    perr,        \* Prompt Invoker: console.error lines
    opc,         \* Orchestrator: control point
    inputs,      \* Orchestrator: $inputs, the prompt being composed
    suggestion,  \* Orchestrator: $suggestion
    newdocs,     \* Orchestrator: $newdocs
    ostatus,     \* Orchestrator: $?, the status of the last assignment
    invoked,     \* Orchestrator: the node processes started, in order
    dumped,      \* Orchestrator: exit codes of the files-to-prompt calls
    oexit,       \* Orchestrator: exit code (Running until the script ends)
    base,        \* Driver: remotes/origin/main is the linear history C1..Cbase
    mainRef,     \* Driver: refs/heads/main, the branch checked out at first
    generated,   \* Driver: the commits made by git commit-tree, in order
    tracking,    \* Driver: refs/heads/gen-commits (NoCommit while absent)
    head,        \* Driver: the branch HEAD is on
    index,       \* Driver: the git index
    pc,          \* Driver: control point of each invocation
    last_generated_commit,
    last_base_commit,
    start_commit,
    tree,
    new_generated_commit,
    diff_file,   \* Driver: whether the mktemp file of a run exists
    dexit,       \* Driver: exit code of the current or last run
    outcome,     \* Driver: how the last run ended
    snap,        \* Driver: the repository when the current or last run started
    runs,        \* Driver: runs that have ended
    calls,       \* Driver: invocations of llm-gen-docs.sh so far
    cleanStart,  \* Driver: the working tree was clean at the very start
    genFailed,   \* Driver: some invocation of llm-gen-docs.sh has failed
    grew,        \* Driver: the base branch has received commits since the start
    cursor,      \* Reference driver: the persisted cursor record
    callers,     \* Driver: the shells from which the script is invoked
    overlapped   \* Driver: a run was started while another was in progress

writerVars == <<inputData, idx, wpc, wexit, wout, werr, fs0>>

invokerVars == <<argv, configFile, apiKey, stdin, userInput, ppc, pexit,
                 apiCalls, pout, perr>>

orchVars == <<opc, inputs, suggestion, newdocs, ostatus, invoked, dumped, oexit>>

repoVars == <<base, mainRef, generated, tracking, head, index>>

localVars == <<pc, last_generated_commit, last_base_commit, start_commit, tree,
               new_generated_commit, diff_file, dexit>>

historyVars == <<outcome, snap, runs, calls, cleanStart, genFailed, grew, cursor,
                 callers, overlapped>>

driverVars == <<repoVars, localVars, historyVars>>

----------------------------------------------------------------------------
(* Bounds *)

MaxFiles == 2
MaxBase == 3
MaxRuns == 4
MaxChanges == 2

----------------------------------------------------------------------------
(* Strings as character sequences *)

Running == -1

startsWith(s, prefix) ==
    /\ Len(s) >= Len(prefix)
    /\ SubSeq(s, 1, Len(prefix)) = prefix

RECURSIVE SplitFrom(_, _)
SplitFrom(s, cur) ==
    IF s = <<>> THEN <<cur>>
    ELSE IF Head(s) = "/" THEN <<cur>> \o SplitFrom(Tail(s), <<>>)
    ELSE SplitFrom(Tail(s), Append(cur, Head(s)))

\* s.split("/")
Split(s) == SplitFrom(s, <<>>)

\* path.js normalizeString with allowAboveRoot = false: "" and "." are
\* dropped, ".." removes the last kept segment (and is dropped at the root).
RECURSIVE normalizeString(_, _)
normalizeString(segs, out) ==
    IF segs = <<>> THEN out
    ELSE LET s == Head(segs) IN
         IF s = <<>> \/ s = <<".">> THEN normalizeString(Tail(segs), out)
         ELSE IF s = <<".", ".">>
              THEN normalizeString(Tail(segs),
                       IF out = <<>> THEN out ELSE SubSeq(out, 1, Len(out) - 1))
              ELSE normalizeString(Tail(segs), Append(out, s))

RECURSIVE JoinAbs(_)
JoinAbs(segs) ==
    IF segs = <<>> THEN <<>>
    ELSE <<"/">> \o Head(segs) \o JoinAbs(Tail(segs))

\* The absolute path with the given normalized segments ("/" for none).
AbsPath(segs) == IF segs = <<>> THEN <<"/">> ELSE JoinAbs(segs)

\* path.resolve(from, to): `to` if it is absolute, else from + "/" + to,
\* normalized.
resolve(from, to) ==
    LET joined == IF to # <<>> /\ Head(to) = "/" THEN to
                  ELSE from \o <<"/">> \o to
    IN  AbsPath(normalizeString(Split(joined), <<>>))

\* path.dirname of an absolute normalized path.
dirname(p) ==
    LET segs == normalizeString(Split(p), <<>>)
    IN  IF segs = <<>> THEN <<"/">> ELSE AbsPath(SubSeq(segs, 1, Len(segs) - 1))

\* p and every directory above it, up to "/".
AncestorsOrSelf(p) ==
    LET segs == normalizeString(Split(p), <<>>)
    IN  {AbsPath(SubSeq(segs, 1, k)) : k \in 0..Len(segs)}

ProperAncestors(p) == AncestorsOrSelf(p) \ {p}

----------------------------------------------------------------------------
(* Names used by the inputs *)

up == <<".", ".">>
docs == <<"d", "o", "c", "s">>

\* process.cwd(): /a/b
currentDir == <<"/", "a", "/", "b">>

\* File names a File Change Set may carry.
FnX         == <<"x">>                                  \* /a/b/x
FnDocsX     == docs \o <<"/", "x">>                     \* /a/b/docs/x
FnDocs      == docs                                     \* /a/b/docs
FnAliasX    == up \o <<"/", "b", "/", ".", "/", "x">>   \* ../b/./x = /a/b/x
FnSibling   == up \o <<"/", "b", "c">>                  \* ../bc    = /a/bc
FnParent    == up \o <<"/", "c">>                       \* ../c     = /a/c
FnCwd       == <<".">>                                  \* /a/b itself
FnNotes     == <<"n">>                                  \* /a/b/n

Filenames == {FnX, FnDocsX, FnDocs, FnAliasX, FnSibling, FnParent, FnCwd}

NewContents == {"", "x", "y"}

FileEntries == [filename : Filenames, new_content : NewContents]

SeqsUpTo(S, n) == UNION {[1..k -> S] : k \in 0..n}

----------------------------------------------------------------------------
(* The filesystem *)

NoFile == "<absent>"
Dir    == "<dir>"

AllPaths ==
    UNION {AncestorsOrSelf(resolve(currentDir, f)) : f \in Filenames \cup {FnNotes}}

\* Only the working directory and the directories above it exist.
EmptyFs == [p \in AllPaths |->
               IF p \in AncestorsOrSelf(currentDir) THEN Dir ELSE NoFile]

\* f with a regular file at p (and the directories leading to it).
WithFile(f, p, c) ==
    LET above == ProperAncestors(p)
    IN  [q \in AllPaths |->
            IF q = p THEN c
            ELSE IF q \in above THEN Dir
            ELSE f[q]]

existsSync(f, p) == f[p] # NoFile

\* fs.unlinkSync throws on a directory (EISDIR / EPERM).
unlinkThrows(f, p) == f[p] = Dir
unlinkSync(f, p) == [f EXCEPT ![p] = NoFile]

\* fs.mkdirSync(dir, {recursive: true}) throws when dir, or a directory
\* above it, is a regular file (EEXIST / ENOTDIR).
mkdirThrows(f, d) == \E q \in AncestorsOrSelf(d) : f[q] \notin {NoFile, Dir}
mkdirSync(f, d) ==
    LET made == AncestorsOrSelf(d)
    IN  [q \in AllPaths |-> IF q \in made THEN Dir ELSE f[q]]

\* fs.writeFileSync throws on a directory (EISDIR).
writeThrows(f, p) == f[p] = Dir
writeFileSync(f, p, c) == [f EXCEPT ![p] = c]

----------------------------------------------------------------------------
(* File Writer: write-files.js *)

\* What JSON.parse(inputData) can be, as far as the code looks at it.
DocKinds == {"not_json", "null", "scalar", "no_files", "files_falsy",
             "files_not_array", "files_array"}

Documents ==
    [kind : DocKinds \ {"files_array"}, files : {<<>>}]
      \cup [kind : {"files_array"}, files : SeqsUpTo(FileEntries, MaxFiles)]

\* Mutant: a document without 'files' is taken as an empty change set.
ParseErrorFilesOptional(doc) ==
    CASE doc.kind = "not_json" -> "SyntaxError"
      [] doc.kind = "null" -> "TypeError"
      [] doc.kind \in {"scalar", "files_falsy", "files_not_array"}
            -> "InvalidFormat"
      [] OTHER -> "none"

\* Lines 16-21: the error thrown before the loop, or "none".
ParseError(doc) ==
    CASE doc.kind = "not_json" -> "SyntaxError"
      [] doc.kind = "null" -> "TypeError"
      [] doc.kind \in {"scalar", "no_files", "files_falsy", "files_not_array"}
            -> "InvalidFormat"
      [] OTHER -> "none"

\* The path check of line 27.
PathAllowed(filePath) == startsWith(filePath, currentDir)

\* Lines 31-36: new_content is '' (the file is deleted if it exists).
DeleteFile(f, file, filePath) ==
    IF existsSync(f, filePath)
    THEN IF unlinkThrows(f, filePath)
         THEN [fs |-> f, log |-> <<>>, err |-> "IOError"]
         ELSE [fs  |-> unlinkSync(f, filePath),
               log |-> <<<<"Deleted", file.filename>>>>,
               err |-> "none"]
    ELSE [fs |-> f, log |-> <<>>, err |-> "none"]

\* Lines 37-45: the directory is made, then the file is written.
WriteFile(f, file, filePath) ==
    LET dir == dirname(filePath)
    IN  IF mkdirThrows(f, dir)
        THEN [fs |-> f, log |-> <<>>, err |-> "IOError"]
        ELSE IF writeThrows(mkdirSync(f, dir), filePath)
        THEN [fs |-> mkdirSync(f, dir), log |-> <<>>, err |-> "IOError"]
        ELSE [fs  |-> writeFileSync(mkdirSync(f, dir), filePath, file.new_content),
              log |-> <<<<"Wrote", file.filename>>>>,
              err |-> "none"]

\* Mutant: the path check of lines 27-29 is missing.
ProcessFileUnchecked(f, file) ==
    LET filePath == resolve(currentDir, file.filename)
    IN  IF file.new_content = ""
        THEN DeleteFile(f, file, filePath)
        ELSE WriteFile(f, file, filePath)

\* Mutant: an empty new_content is written as an empty file.
ProcessFileTruncating(f, file) ==
    LET filePath == resolve(currentDir, file.filename)
    IN  IF ~PathAllowed(filePath)
        THEN [fs |-> f, log |-> <<>>, err |-> "PathEscape"]
        ELSE WriteFile(f, file, filePath)

\* Lines 24-45: one call of the forEach callback on filesystem f.  The
\* result is the new filesystem, the line logged (<<>> if none) and the
\* error thrown ("none" if the callback returned).
ProcessFile(f, file) ==
    LET filePath == resolve(currentDir, file.filename)
    IN  IF ~PathAllowed(filePath)
        THEN [fs |-> f, log |-> <<>>, err |-> "PathEscape"]
        ELSE IF file.new_content = ""
        THEN DeleteFile(f, file, filePath)
        ELSE WriteFile(f, file, filePath)

InitialFs ==
    {EmptyFs,
     WithFile(EmptyFs, resolve(currentDir, FnX), "x"),
     WithFile(EmptyFs, resolve(currentDir, FnDocsX), "y"),
     WithFile(WithFile(EmptyFs, resolve(currentDir, FnX), "y"),
              resolve(currentDir, FnDocsX), "x"),
     WithFile(EmptyFs, resolve(currentDir, FnDocs), "x"),
     WithFile(WithFile(EmptyFs, resolve(currentDir, FnSibling), "y"),
              resolve(currentDir, FnParent), "x")}

InitWriter ==
    /\ fs \in InitialFs
    /\ fs0 = fs
    /\ inputData \in Documents
    /\ idx = 1
    /\ wpc = "parse"
    /\ wexit = Running
    /\ wout = <<>>
    /\ werr = "none"

\* Lines 14-21 (and the catch block, 47-50): stdin has ended.
OnStdinEnd ==
    /\ wpc = "parse"
    /\ IF ParseError(inputData) # "none"
       THEN /\ werr' = ParseError(inputData)
            /\ wexit' = 1
            /\ wpc' = "exited"
       ELSE /\ wpc' = "forEach"
            /\ UNCHANGED <<werr, wexit>>
    /\ UNCHANGED <<fs, inputData, idx, wout, fs0>>
    /\ UNCHANGED <<invokerVars, orchVars, driverVars>>

\* Lines 23-46 (and the catch block): the callback on data.files[idx].
ForEachFile ==
    /\ wpc = "forEach"
    /\ idx <= Len(inputData.files)
    /\ LET r == ProcessFile(fs, inputData.files[idx])
       IN  /\ fs' = r.fs
           /\ wout' = wout \o r.log
           /\ IF r.err # "none"
              THEN /\ werr' = r.err
                   /\ wexit' = 1
                   /\ wpc' = "exited"
                   /\ idx' = idx
              ELSE /\ idx' = idx + 1
                   /\ UNCHANGED <<werr, wexit, wpc>>
    /\ UNCHANGED <<inputData, fs0>>
    /\ UNCHANGED <<invokerVars, orchVars, driverVars>>

\* forEach has returned: the handler ends and the process exits 0.
WriterDone ==
    /\ wpc = "forEach"
    /\ idx > Len(inputData.files)
    /\ wexit' = 0
    /\ wpc' = "exited"
    /\ UNCHANGED <<fs, inputData, idx, wout, werr, fs0>>
    /\ UNCHANGED <<invokerVars, orchVars, driverVars>>

NextWriter == OnStdinEnd \/ ForEachFile \/ WriterDone

\* The File Writer is not running.
WriterOff ==
    /\ inputData = [kind |-> "files_array", files |-> <<>>]
    /\ idx = 1
    /\ wpc = "off"
    /\ wexit = Running
    /\ wout = <<>>
    /\ werr = "none"
    /\ fs0 = EmptyFs

----------------------------------------------------------------------------
(* Prompt Invoker: gemini.js *)

Absent == "<absent>"
Unset  == "<unset>"

Whitespace == {" ", "\n", "\t"}

\* String.prototype.trim: whitespace is removed at both ends.
RECURSIVE TrimStart(_)
TrimStart(s) ==
    IF s # <<>> /\ Head(s) \in Whitespace THEN TrimStart(Tail(s)) ELSE s

RECURSIVE TrimEnd(_)
TrimEnd(s) ==
    IF s # <<>> /\ s[Len(s)] \in Whitespace
    THEN TrimEnd(SubSeq(s, 1, Len(s) - 1))
    ELSE s

trim(s) == TrimEnd(TrimStart(s))

\* Mutant: readStdin resolves with the data as read.
readStdinUntrimmed(data) == data

\* Lines 8-25: readStdin resolves with the trimmed data.
readStdin(data) == trim(data)

\* The configuration file: unreadable, not YAML, a document yaml.load
\* returns undefined or null for, a scalar, or a mapping whose 'model' and
\* 'generationConfig' are absent, falsy or set.
ConfigFiles ==
    [kind : {"unreadable", "bad_yaml", "empty", "scalar"},
     model : {Absent}, generationConfig : {Absent}]
      \cup [kind : {"map"},
            model : {Absent, "", "gemini"},
            generationConfig : {Absent, "null", "options"}]

Prompts == {<<>>, <<" ">>, <<"\n", " ">>, <<"h">>, <<" ", "h", "\n">>}

\* JavaScript truthiness of a configuration or environment value.
Truthy(v) == v \notin {Absent, Unset, "", "null"}

InitInvoker ==
    /\ argv \in 0..2
    /\ configFile \in ConfigFiles
    /\ apiKey \in {Unset, "", "key"}
    /\ stdin \in Prompts
    /\ userInput = <<>>
    /\ ppc = "args"
    /\ pexit = Running
    /\ apiCalls = <<>>
    /\ pout = <<>>
    /\ perr = <<>>

\* process.exit(1) after console.error(msg).
Fail(msg) ==
    /\ perr' = Append(perr, msg)
    /\ pexit' = 1
    /\ ppc' = "exited"

\* Lines 29-34: exactly one argument is required.
CheckArgs ==
    /\ ppc = "args"
    /\ IF argv # 1
       THEN Fail("Usage")
       ELSE ppc' = "config" /\ UNCHANGED <<perr, pexit>>
    /\ UNCHANGED <<argv, configFile, apiKey, stdin, userInput, apiCalls, pout>>
    /\ UNCHANGED <<fs, writerVars, orchVars, driverVars>>

\* Lines 36-46: the file is read and parsed.  A rejected readFile is
\* caught at lines 94-97.
LoadConfig ==
    /\ ppc = "config"
    /\ CASE configFile.kind = "unreadable" -> Fail("An error occurred")
         [] configFile.kind = "bad_yaml" -> Fail("Error parsing YAML configuration")
         [] OTHER -> ppc' = "validate" /\ UNCHANGED <<perr, pexit>>
    /\ UNCHANGED <<argv, configFile, apiKey, stdin, userInput, apiCalls, pout>>
    /\ UNCHANGED <<fs, writerVars, orchVars, driverVars>>

\* Lines 48-57: 'model' and 'generationConfig' are required.  Reading
\* config.model of undefined or null throws (caught at lines 94-97).
ValidateConfig ==
    /\ ppc = "validate"
    /\ CASE configFile.kind = "empty" -> Fail("An error occurred")
         [] configFile.kind # "empty" /\ ~Truthy(configFile.model)
              -> Fail("Configuration file must include a 'model' property.")
         [] configFile.kind # "empty" /\ Truthy(configFile.model)
              /\ ~Truthy(configFile.generationConfig)
              -> Fail("Configuration file must include a 'generationConfig' property.")
         [] OTHER -> ppc' = "apiKey" /\ UNCHANGED <<perr, pexit>>
    /\ UNCHANGED <<argv, configFile, apiKey, stdin, userInput, apiCalls, pout>>
    /\ UNCHANGED <<fs, writerVars, orchVars, driverVars>>

\* Lines 59-75: the credential is required; the client and the model
\* object are built (no request is sent).
CheckApiKey ==
    /\ ppc = "apiKey"
    /\ IF ~Truthy(apiKey)
       THEN Fail("Environment variable GEMINI_API_KEY is not set.")
       ELSE ppc' = "stdin" /\ UNCHANGED <<perr, pexit>>
    /\ UNCHANGED <<argv, configFile, apiKey, stdin, userInput, apiCalls, pout>>
    /\ UNCHANGED <<fs, writerVars, orchVars, driverVars>>

\* Lines 77-83: the prompt is read; an empty prompt is refused.
ReadInput ==
    /\ ppc = "stdin"
    /\ userInput' = readStdin(stdin)
    /\ IF readStdin(stdin) = <<>>
       THEN Fail("No input received from stdin.")
       ELSE ppc' = "startChat" /\ UNCHANGED <<perr, pexit>>
    /\ UNCHANGED <<argv, configFile, apiKey, stdin, apiCalls, pout>>
    /\ UNCHANGED <<fs, writerVars, orchVars, driverVars>>

\* Lines 85-88: model.startChat({generationConfig}).
StartChat ==
    /\ ppc = "startChat"
    /\ apiCalls' = Append(apiCalls, <<"startChat", configFile.generationConfig>>)
    /\ ppc' = "send"
    /\ UNCHANGED <<argv, configFile, apiKey, stdin, userInput, pexit, pout, perr>>
    /\ UNCHANGED <<fs, writerVars, orchVars, driverVars>>

\* Lines 90-93: the message is sent and answered; the response object
\* goes to the diagnostic stream and its text to standard output.
SendMessageOk ==
    /\ ppc = "send"
    /\ apiCalls' = Append(apiCalls, <<"sendMessage", userInput>>)
    /\ perr' = Append(perr, "response")
    /\ pout' = Append(pout, "response.text")
    /\ pexit' = 0
    /\ ppc' = "exited"
    /\ UNCHANGED <<argv, configFile, apiKey, stdin, userInput>>
    /\ UNCHANGED <<fs, writerVars, orchVars, driverVars>>

\* Lines 91, 94-97: the request is rejected.
SendMessageFails ==
    /\ ppc = "send"
    /\ apiCalls' = Append(apiCalls, <<"sendMessage", userInput>>)
    /\ Fail("An error occurred")
    /\ UNCHANGED <<argv, configFile, apiKey, stdin, userInput, pout>>
    /\ UNCHANGED <<fs, writerVars, orchVars, driverVars>>

NextInvoker ==
    \/ CheckArgs
    \/ LoadConfig
    \/ ValidateConfig
    \/ CheckApiKey
    \/ ReadInput
    \/ StartChat
    \/ SendMessageOk
    \/ SendMessageFails

\* The Prompt Invoker is not running.
InvokerOff ==
    /\ argv = 1
    /\ configFile = [kind |-> "map", model |-> "gemini", generationConfig |-> "options"]
    /\ apiKey = "key"
    /\ stdin = <<>>
    /\ userInput = <<>>
    /\ ppc = "off"
    /\ pexit = Running
    /\ apiCalls = <<>>
    /\ pout = <<>>
    /\ perr = <<>>


----------------------------------------------------------------------------
(* Doc Update Orchestrator: llm-gen-docs.sh *)

\* Exit codes a child process may end with.
ExitCodes == {0, 1, 2}

\* What a child process may have printed on standard output.
Outputs == {"", "text"}

\* Lines 1-5: the script starts; no variable is set.
InitOrch ==
    /\ opc = "compose1"
    /\ inputs = <<>>
    /\ suggestion = ""
    /\ newdocs = ""
    /\ ostatus = 0
    /\ invoked = <<>>
    /\ dumped = <<>>
    /\ oexit = Running

\* Lines 6-13: inputs=$( ... ).  The commands run in the subshell of the
\* command substitution; 'files-to-prompt docs/ || exit 1' ends that
\* subshell only, and what was printed until then is assigned.
ComposeSuggestionPrompt ==
    /\ opc = "compose1"
    /\ \E code \in ExitCodes, dump \in Outputs :
          /\ inputs' = <<"PATCH:", "diff", "", "EXISTING DOCUMENTATION:", dump>>
          /\ ostatus' = IF code = 0 THEN 0 ELSE 1
          /\ dumped' = Append(dumped, code)
    /\ opc' = "suggest"
    /\ UNCHANGED <<suggestion, newdocs, invoked, oexit>>
    /\ UNCHANGED <<fs, writerVars, invokerVars, driverVars>>

\* Lines 14-17: suggestion=$(node gemini.js generate-docs.yaml <<< "$inputs").
GenerateSuggestions ==
    /\ opc = "suggest"
    /\ \E code \in ExitCodes, out \in Outputs :
          /\ invoked' = Append(invoked,
                 [script |-> "gemini.js", config |-> "generate-docs.yaml",
                  stdin |-> inputs, exit |-> code])
          /\ suggestion' = out
          /\ ostatus' = code
    /\ opc' = "check1"
    /\ UNCHANGED <<inputs, newdocs, dumped, oexit>>
    /\ UNCHANGED <<fs, writerVars, invokerVars, driverVars>>

\* Lines 18-23: if [ $? -ne 0 ]; then exit 1; fi
CheckSuggestions ==
    /\ opc = "check1"
    /\ IF ostatus # 0
       THEN opc' = "exited" /\ oexit' = 1
       ELSE opc' = "compose2" /\ oexit' = oexit
    /\ UNCHANGED <<inputs, suggestion, newdocs, ostatus, invoked, dumped>>
    /\ UNCHANGED <<fs, writerVars, invokerVars, driverVars>>

\* Lines 25-32: inputs=$( ... ); when files-to-prompt fails the subshell
\* ends before the suggestion is printed.
ComposeUpdatePrompt ==
    /\ opc = "compose2"
    /\ \E code \in ExitCodes, dump \in Outputs :
          /\ inputs' = IF code = 0
                       THEN <<"EXISTING DOCUMENTATION:", dump, "",
                              "SUGGESTED CHANGES:", suggestion>>
                       ELSE <<"EXISTING DOCUMENTATION:", dump>>
          /\ ostatus' = IF code = 0 THEN 0 ELSE 1
          /\ dumped' = Append(dumped, code)
    /\ opc' = "update"
    /\ UNCHANGED <<suggestion, newdocs, invoked, oexit>>
    /\ UNCHANGED <<fs, writerVars, invokerVars, driverVars>>

\* Lines 33-36: newdocs=$(node gemini.js update-docs.yaml <<< "$inputs").
GenerateUpdate ==
    /\ opc = "update"
    /\ \E code \in ExitCodes, out \in Outputs :
          /\ invoked' = Append(invoked,
                 [script |-> "gemini.js", config |-> "update-docs.yaml",
                  stdin |-> inputs, exit |-> code])
          /\ newdocs' = out
          /\ ostatus' = code
    /\ opc' = "check2"
    /\ UNCHANGED <<inputs, suggestion, dumped, oexit>>
    /\ UNCHANGED <<fs, writerVars, invokerVars, driverVars>>

\* Mutant: the status of the update call is not tested.
CheckUpdateIgnoringStatus ==
    /\ opc = "check2"
    /\ opc' = "write"
    /\ UNCHANGED <<inputs, suggestion, newdocs, ostatus, invoked, dumped, oexit>>
    /\ UNCHANGED <<fs, writerVars, invokerVars, driverVars>>

\* Lines 37-42: if [ $? -ne 0 ]; then exit 1; fi
CheckUpdate ==
    /\ opc = "check2"
    /\ IF ostatus # 0
       THEN opc' = "exited" /\ oexit' = 1
       ELSE opc' = "write" /\ oexit' = oexit
    /\ UNCHANGED <<inputs, suggestion, newdocs, ostatus, invoked, dumped>>
    /\ UNCHANGED <<fs, writerVars, invokerVars, driverVars>>

\* Lines 44-45: node write-files.js <<< "$newdocs" || exit 1; the script
\* ends with the status of its last command.
WriteUpdate ==
    /\ opc = "write"
    /\ \E code \in ExitCodes :
          /\ invoked' = Append(invoked,
                 [script |-> "write-files.js", config |-> "",
                  stdin |-> <<newdocs>>, exit |-> code])
          /\ ostatus' = code
          /\ oexit' = IF code # 0 THEN 1 ELSE 0
    /\ opc' = "exited"
    /\ UNCHANGED <<inputs, suggestion, newdocs, dumped>>
    /\ UNCHANGED <<fs, writerVars, invokerVars, driverVars>>

NextOrch ==
    \/ ComposeSuggestionPrompt
    \/ GenerateSuggestions
    \/ CheckSuggestions
    \/ ComposeUpdatePrompt
    \/ GenerateUpdate
    \/ CheckUpdate
    \/ WriteUpdate

\* The Doc Update Orchestrator is not running.
OrchOff ==
    /\ opc = "off"
    /\ inputs = <<>>
    /\ suggestion = ""
    /\ newdocs = ""
    /\ ostatus = 0
    /\ invoked = <<>>
    /\ dumped = <<>>
    /\ oexit = Running

----------------------------------------------------------------------------
(* Doc Update Orchestrator, as the driver sees it: llm-gen-docs.sh *)

\* The File Change Sets the "apply update" call may hand to the File Writer
\* during a driver run: a documentation file written or deleted, a
\* tracked source file written or deleted, a new file outside docs/, a
\* path the File Writer refuses.
DriverEntries ==
    {[filename |-> FnDocsX, new_content |-> "y"],
     [filename |-> FnDocsX, new_content |-> ""],
     [filename |-> FnX, new_content |-> "y"],
     [filename |-> FnX, new_content |-> ""],
     [filename |-> FnNotes, new_content |-> "y"],
     [filename |-> FnParent, new_content |-> "y"]}

\* The results of data.files.forEach taking one more entry, from any of
\* the filesystems in F.
OneMoreEntry(F) == {ProcessFile(f, e) : f \in F, e \in DriverEntries}

\* The filesystems write-files.js can leave when it has applied a change
\* set of at most n entries without a throw.
RECURSIVE AppliedWithin(_, _)
AppliedWithin(f, n) ==
    IF n = 0 THEN {f}
    ELSE LET F == AppliedWithin(f, n - 1)
         IN  F \cup {r.fs : r \in {x \in OneMoreEntry(F) : x.err = "none"}}

\* The filesystems write-files.js can leave when an entry of a change set
\* of at most n entries throws: the entries before it stay applied.
AbortedWithin(f, n) ==
    {r.fs : r \in {x \in OneMoreEntry(AppliedWithin(f, n - 1)) : x.err # "none"}}

\* llm-gen-docs.sh with the File Writer working on filesystem f: it fails
\* before the File Writer changes anything (a Prompt Invoker call exits
\* non-zero, or $newdocs is no File Change Set), or ends with the File
\* Writer's exit code after a change set of at most MaxChanges entries.
OrchestratorOutcomes(f) ==
    {[fs |-> f, exit |-> 1]}
      \cup {[fs |-> g, exit |-> 0] : g \in AppliedWithin(f, MaxChanges)}
      \cup {[fs |-> g, exit |-> 1] : g \in AbortedWithin(f, MaxChanges)}

----------------------------------------------------------------------------
(* Commit Replay Driver: the git script *)

\* The invocations of the script that can be in progress at a time.
Procs == {1, 2}

\* Commit names.  Empty is the empty string of an unset shell variable;
\* BadRev is the text git rev-parse echoes for a revision it cannot resolve.
BaseCommit(i) == [kind |-> "base", n |-> i]
GenCommit(k)  == [kind |-> "gen", n |-> k]
NoCommit      == [kind |-> "none", n |-> 0]
Empty         == [kind |-> "empty", n |-> 0]
BadRev        == [kind |-> "bad", n |-> 0]

\* The files git can see in the working directory.
PX     == resolve(currentDir, FnX)
PNotes == resolve(currentDir, FnNotes)
PDocsX == resolve(currentDir, FnDocsX)
RepoFiles == {PX, PNotes, PDocsX}

\* The pathspec docs/ of line 159.
UnderDocs(p) == startsWith(p, currentDir \o <<"/">> \o docs \o <<"/">>)

\* The tree of base commit Ci: one source file, changed by every commit.
BaseTree(i) ==
    [p \in RepoFiles |->
        IF p = PX THEN (IF i % 2 = 1 THEN "x" ELSE "y") ELSE NoFile]

TreeOf(c) == IF c.kind = "base" THEN BaseTree(c.n) ELSE generated[c.n].tree

HeadCommit == IF head = "main" THEN mainRef ELSE tracking

\* The working tree as git reads it.
WorkTree(f) == [p \in RepoFiles |-> IF f[p] = Dir THEN NoFile ELSE f[p]]

\* Mutant: untracked files are not reported.
StatusIgnoringUntracked(f, ix, headTree) ==
    \/ ix # headTree
    \/ \E p \in RepoFiles : ix[p] # NoFile /\ WorkTree(f)[p] # ix[p]

\* Line 90: git status --porcelain prints something (staged changes,
\* unstaged changes or untracked files).
StatusPorcelain(f, ix, headTree) ==
    \/ ix # headTree
    \/ WorkTree(f) # ix

\* git rev-list --reverse $base_branch | head -n 1
FirstCommitOnBase == BaseCommit(1)

\* git rev-parse ${c}^1: the first parent; a root commit has none, and
\* rev-parse then fails, echoing its argument.
RevParseParent1(c) ==
    CASE c.kind = "gen" -> generated[c.n].parents[1]
      [] c.kind = "base" /\ c.n > 1 -> BaseCommit(c.n - 1)
      [] OTHER -> BadRev

\* Mutant: rev-list without --reverse lists the newest commit first.
NextOnBaseNewestFirst(b) ==
    IF b.kind = "base" /\ b.n < base THEN BaseCommit(base) ELSE Empty

\* git rev-list --reverse $base_branch --ancestry-path ${b}..$base_branch
\* | head -n 1: the base commit after b, nothing when b is the tip, is
\* not on the base branch or is no revision (rev-list fails).
NextOnBase(b) ==
    IF b.kind = "base" /\ b.n < base THEN BaseCommit(b.n + 1) ELSE Empty

\* git checkout refuses to switch when a file that differs between the
\* two commits has local changes or is in the way untracked.
CheckoutBlocked(f, ix, old, new) ==
    \E p \in RepoFiles :
        new[p] # old[p] /\ (WorkTree(f)[p] # ix[p] \/ ix[p] # old[p])

\* git checkout: files that differ between the two commits are replaced.
CheckoutIndex(ix, old, new) ==
    [p \in RepoFiles |-> IF new[p] # old[p] THEN new[p] ELSE ix[p]]

CheckoutFs(f, old, new) ==
    LET made == UNION {ProperAncestors(q) :
                         q \in {r \in RepoFiles : new[r] # old[r] /\ new[r] # NoFile}}
    IN  [p \in AllPaths |->
            IF p \in RepoFiles /\ new[p] # old[p] THEN new[p]
            ELSE IF p \in made THEN Dir
            ELSE f[p]]

\* Mutant: git add -A, the index takes the whole working tree.
GitAddAll(f, ix) == WorkTree(f)

\* Line 159, git add docs/: the index takes the working tree's files
\* under docs/.
GitAdd(f, ix) ==
    [p \in RepoFiles |-> IF UnderDocs(p) THEN WorkTree(f)[p] ELSE ix[p]]

\* Line 175, git reset --hard: tracked files are made those of the commit;
\* untracked files stay.
ResetHardFs(f, ix, new) ==
    LET made == UNION {ProperAncestors(q) : q \in {r \in RepoFiles : new[r] # NoFile}}
    IN  [p \in AllPaths |->
            IF p \in RepoFiles /\ (new[p] # NoFile \/ ix[p] # NoFile) THEN new[p]
            ELSE IF p \in made THEN Dir
            ELSE f[p]]

\* The repository as a run finds it.
Snapshot ==
    [tracking |-> tracking, head |-> head, mainRef |-> mainRef,
     headTree |-> TreeOf(HeadCommit), index |-> index, fs |-> fs,
     ngen |-> Len(generated), base |-> base, runs |-> runs, calls |-> calls]

\* A working directory holding the files of tree t.
FsOfTree(t) ==
    LET made == UNION {ProperAncestors(q) : q \in {r \in RepoFiles : t[r] # NoFile}}
    IN  [p \in AllPaths |->
            IF p \in RepoFiles /\ t[p] # NoFile THEN t[p]
            ELSE IF p \in made THEN Dir
            ELSE EmptyFs[p]]

\* A clone with main checked out at the tip of the base branch: clean, or
\* with an untracked file, an unstaged change or a staged change.
InitDriver ==
    /\ base \in 1..MaxBase
    /\ mainRef = BaseCommit(base)
    /\ generated = <<>>
    /\ tracking = NoCommit
    /\ head = "main"
    /\ \E dirt \in {"clean", "untracked", "unstaged", "staged"} :
          /\ index = IF dirt = "staged"
                     THEN [BaseTree(base) EXCEPT ![PDocsX] = "x"]
                     ELSE BaseTree(base)
          /\ fs = CASE dirt = "clean" -> FsOfTree(BaseTree(base))
                    [] dirt = "untracked" ->
                         WithFile(FsOfTree(BaseTree(base)), PNotes, "x")
                    [] dirt = "unstaged" ->
                         WithFile(FsOfTree(BaseTree(base)), PX, "")
                    [] dirt = "staged" ->
                         WithFile(FsOfTree(BaseTree(base)), PDocsX, "x")
          /\ cleanStart = (dirt = "clean")
    /\ pc = [p \in Procs |-> "idle"]
    /\ last_generated_commit = [p \in Procs |-> Empty]
    /\ last_base_commit = [p \in Procs |-> Empty]
    /\ start_commit = [p \in Procs |-> Empty]
    /\ tree = [p \in Procs |-> BaseTree(1)]
    /\ new_generated_commit = [p \in Procs |-> Empty]
    /\ diff_file = [p \in Procs |-> FALSE]
    /\ dexit = [p \in Procs |-> Running]
    /\ outcome = [p \in Procs |-> "none"]
    /\ runs = 0
    /\ calls = 0
    /\ genFailed = FALSE
    /\ grew = FALSE
    /\ cursor = [base |-> Empty, gen |-> Empty]
    /\ overlapped = FALSE
    /\ snap = [p \in Procs |-> Snapshot]

\* The run of p ends with the given exit code.
EndRun(p, code, how) ==
    /\ pc' = [pc EXCEPT ![p] = "idle"]
    /\ dexit' = [dexit EXCEPT ![p] = code]
    /\ outcome' = [outcome EXCEPT ![p] = how]
    /\ runs' = runs + 1

\* git fetch: the base branch receives a commit (between runs).
Fetch ==
    /\ \A p \in Procs : pc[p] = "idle"
    /\ base < MaxBase
    /\ base' = base + 1
    /\ grew' = TRUE
    /\ UNCHANGED <<fs, mainRef, generated, tracking, head, index, localVars,
                   outcome, snap, runs, calls, cleanStart, genFailed, cursor,
                   callers, overlapped>>
    /\ UNCHANGED <<writerVars, invokerVars, orchVars>>

\* Lines 85-93: a run starts (every shell variable is unset) and checks
\* that the working directory is clean.  From one shell up to MaxRuns runs
\* follow one another; from two shells the script is run once in each.
CheckClean(p) ==
    /\ p \in callers
    /\ pc[p] = "idle"
    /\ runs < MaxRuns
    /\ callers # {1} => outcome[p] = "none"
    /\ snap' = [snap EXCEPT ![p] = Snapshot]
    /\ last_generated_commit' = [last_generated_commit EXCEPT ![p] = Empty]
    /\ last_base_commit' = [last_base_commit EXCEPT ![p] = Empty]
    /\ start_commit' = [start_commit EXCEPT ![p] = Empty]
    /\ new_generated_commit' = [new_generated_commit EXCEPT ![p] = Empty]
    /\ IF StatusPorcelain(fs, index, TreeOf(HeadCommit))
       THEN EndRun(p, 1, "dirty")
       ELSE /\ pc' = [pc EXCEPT ![p] = "branch"]
            /\ dexit' = [dexit EXCEPT ![p] = Running]
            /\ outcome' = [outcome EXCEPT ![p] = "running"]
            /\ runs' = runs
    /\ overlapped' = (overlapped \/ \E q \in Procs \ {p} : pc[q] # "idle")
    /\ UNCHANGED <<fs, repoVars, tree, diff_file, calls, cleanStart, genFailed, grew,
                   cursor, callers>>
    /\ UNCHANGED <<writerVars, invokerVars, orchVars>>

\* Lines 95-100 and 105-113: git show-ref tells whether the tracking
\* branch exists.  Without it the run goes on to create it (Initialize);
\* with it the branch is checked out and the cursor read from its tip
\* (Resume).
EnsureBranch(p) ==
    /\ pc[p] = "branch"
    /\ IF tracking = NoCommit
       THEN /\ pc' = [pc EXCEPT ![p] = "create"]
            /\ UNCHANGED <<fs, index, head, tracking, last_generated_commit,
                           last_base_commit>>
       ELSE LET old     == TreeOf(HeadCommit)
                new     == TreeOf(tracking)
                blocked == CheckoutBlocked(fs, index, old, new)
                tip     == IF blocked THEN HeadCommit ELSE tracking
            IN  /\ IF blocked
                   THEN UNCHANGED <<fs, index, head>>
                   ELSE /\ fs' = CheckoutFs(fs, old, new)
                        /\ index' = CheckoutIndex(index, old, new)
                        /\ head' = "gen-commits"
                /\ last_generated_commit' =
                       [last_generated_commit EXCEPT ![p] = tip]
                /\ last_base_commit' =
                       [last_base_commit EXCEPT ![p] = RevParseParent1(tip)]
                /\ pc' = [pc EXCEPT ![p] = "select"]
                /\ UNCHANGED tracking
    /\ UNCHANGED <<base, mainRef, generated, start_commit, tree,
                   new_generated_commit, diff_file, dexit, historyVars>>
    /\ UNCHANGED <<writerVars, invokerVars, orchVars>>

\* Lines 103-104: git checkout -b gen-commits <first commit of the base
\* branch>.  It fails, changing nothing, when the branch exists by now or
\* when local changes are in the way; the script goes on either way.
CreateBranch(p) ==
    /\ pc[p] = "create"
    /\ LET old == TreeOf(HeadCommit)
           new == TreeOf(FirstCommitOnBase)
       IN  IF tracking # NoCommit \/ CheckoutBlocked(fs, index, old, new)
           THEN UNCHANGED <<fs, index, head, tracking>>
           ELSE /\ fs' = CheckoutFs(fs, old, new)
                /\ index' = CheckoutIndex(index, old, new)
                /\ head' = "gen-commits"
                /\ tracking' = FirstCommitOnBase
    /\ last_generated_commit' = [last_generated_commit EXCEPT ![p] = Empty]
    /\ pc' = [pc EXCEPT ![p] = "select"]
    /\ UNCHANGED <<base, mainRef, generated, last_base_commit, start_commit, tree,
                   new_generated_commit, diff_file, dexit, historyVars>>
    /\ UNCHANGED <<writerVars, invokerVars, orchVars>>

\* Lines 115-135: the next base commit is selected; with none, the run
\* ends "caught up".
SelectNext(p) ==
    /\ pc[p] = "select"
    /\ LET lastBase == IF last_base_commit[p] = Empty
                       THEN RevParseParent1(last_generated_commit[p])
                       ELSE last_base_commit[p]
           next == IF last_generated_commit[p] = Empty
                   THEN FirstCommitOnBase
                   ELSE NextOnBase(lastBase)
       IN  /\ start_commit' = [start_commit EXCEPT ![p] = next]
           /\ last_base_commit' =
                  IF last_generated_commit[p] = Empty THEN last_base_commit
                  ELSE [last_base_commit EXCEPT ![p] = lastBase]
           /\ IF next = Empty
              THEN EndRun(p, 0, "caught_up")
              ELSE /\ pc' = [pc EXCEPT ![p] = "generate"]
                   /\ UNCHANGED <<dexit, outcome, runs>>
    /\ UNCHANGED <<fs, repoVars, last_generated_commit, tree,
                   new_generated_commit, diff_file, snap, calls, cleanStart,
                   genFailed, grew, cursor, callers, overlapped>>
    /\ UNCHANGED <<writerVars, invokerVars, orchVars>>

\* Lines 137-149 and the test of 152 passing: the diff is written to a
\* temporary file and llm-gen-docs.sh exits 0.
GenerateOk(p) ==
    /\ pc[p] = "generate"
    /\ \E r \in OrchestratorOutcomes(fs) :
          /\ r.exit = 0
          /\ fs' = r.fs
    /\ calls' = calls + 1
    /\ diff_file' = [diff_file EXCEPT ![p] = TRUE]
    /\ pc' = [pc EXCEPT ![p] = "commit"]
    /\ UNCHANGED <<repoVars, last_generated_commit, last_base_commit,
                   start_commit, tree, new_generated_commit, dexit, outcome,
                   snap, runs, cleanStart, genFailed, grew, cursor,
                   callers, overlapped>>
    /\ UNCHANGED <<writerVars, invokerVars, orchVars>>

\* Lines 137-156: llm-gen-docs.sh exits non-zero; the temporary file is
\* removed and the run ends with exit code 1.
GenerateFails(p) ==
    /\ pc[p] = "generate"
    /\ \E r \in OrchestratorOutcomes(fs) :
          /\ r.exit # 0
          /\ fs' = r.fs
    /\ calls' = calls + 1
    /\ genFailed' = TRUE
    /\ diff_file' = [diff_file EXCEPT ![p] = FALSE]
    /\ EndRun(p, 1, "aborted")
    /\ UNCHANGED <<repoVars, last_generated_commit, last_base_commit,
                   start_commit, tree, new_generated_commit, snap, cleanStart, grew,
                   cursor, callers, overlapped>>
    /\ UNCHANGED <<writerVars, invokerVars, orchVars>>

\* Mutant: the commit is made with the selected base commit as its only
\* parent.
CommitTreeWithoutTip(p) ==
    /\ pc[p] = "commit"
    /\ index' = GitAdd(fs, index)
    /\ tree' = [tree EXCEPT ![p] = GitAdd(fs, index)]
    /\ generated' = Append(generated,
           [tree    |-> GitAdd(fs, index),
            parents |-> <<start_commit[p]>>,
            message |-> start_commit[p]])
    /\ new_generated_commit' =
           [new_generated_commit EXCEPT ![p] = GenCommit(Len(generated) + 1)]
    /\ pc' = [pc EXCEPT ![p] = "update_ref"]
    /\ UNCHANGED <<fs, base, mainRef, tracking, head, last_generated_commit,
                   last_base_commit, start_commit, diff_file, dexit, historyVars>>
    /\ UNCHANGED <<writerVars, invokerVars, orchVars>>

\* Lines 158-169: docs/ is staged, the index written as a tree and the
\* commit made, with the selected commit and (if there is one) the last
\* generated commit as parents.
CommitTree(p) ==
    /\ pc[p] = "commit"
    /\ index' = GitAdd(fs, index)
    /\ tree' = [tree EXCEPT ![p] = GitAdd(fs, index)]
    /\ generated' = Append(generated,
           [tree    |-> GitAdd(fs, index),
            parents |-> IF last_generated_commit[p] # Empty
                        THEN <<start_commit[p], last_generated_commit[p]>>
                        ELSE <<start_commit[p]>>,
            message |-> start_commit[p]])
    /\ new_generated_commit' =
           [new_generated_commit EXCEPT ![p] = GenCommit(Len(generated) + 1)]
    /\ pc' = [pc EXCEPT ![p] = "update_ref"]
    /\ UNCHANGED <<fs, base, mainRef, tracking, head, last_generated_commit,
                   last_base_commit, start_commit, diff_file, dexit, historyVars>>
    /\ UNCHANGED <<writerVars, invokerVars, orchVars>>

\* Line 172: git update-ref refs/heads/gen-commits $new_generated_commit.
UpdateRef(p) ==
    /\ pc[p] = "update_ref"
    /\ tracking' = new_generated_commit[p]
    /\ pc' = [pc EXCEPT ![p] = "reset"]
    /\ UNCHANGED <<fs, base, mainRef, generated, head, index, last_generated_commit,
                   last_base_commit, start_commit, tree, new_generated_commit,
                   diff_file, dexit, historyVars>>
    /\ UNCHANGED <<writerVars, invokerVars, orchVars>>

\* Lines 174-184: git reset --hard moves the current branch, the index and
\* the tracked files to the new commit; the cursor advances, the temporary
\* file is removed and the run ends with exit code 0.
ResetHard(p) ==
    /\ pc[p] = "reset"
    /\ LET new == TreeOf(new_generated_commit[p])
       IN  /\ fs' = ResetHardFs(fs, index, new)
           /\ index' = new
    /\ IF head = "main"
       THEN mainRef' = new_generated_commit[p] /\ UNCHANGED tracking
       ELSE tracking' = new_generated_commit[p] /\ UNCHANGED mainRef
    /\ last_generated_commit' =
           [last_generated_commit EXCEPT ![p] = new_generated_commit[p]]
    /\ last_base_commit' = [last_base_commit EXCEPT ![p] = start_commit[p]]
    /\ cursor' = [base |-> start_commit[p], gen |-> new_generated_commit[p]]
    /\ diff_file' = [diff_file EXCEPT ![p] = FALSE]
    /\ EndRun(p, 0, "processed")
    /\ UNCHANGED <<base, generated, head, start_commit, tree,
                   new_generated_commit, snap, calls, cleanStart, genFailed, grew,
                   callers, overlapped>>
    /\ UNCHANGED <<writerVars, invokerVars, orchVars>>

NextDriver ==
    \/ Fetch
    \/ \E p \in Procs : CheckClean(p)
    \/ \E p \in Procs : EnsureBranch(p)
    \/ \E p \in Procs : CreateBranch(p)
    \/ \E p \in Procs : SelectNext(p)
    \/ \E p \in Procs : GenerateOk(p)
    \/ \E p \in Procs : GenerateFails(p)
    \/ \E p \in Procs : CommitTree(p)
    \/ \E p \in Procs : UpdateRef(p)
    \/ \E p \in Procs : ResetHard(p)

\* No driver has been started.
DriverOff ==
    /\ base = 1
    /\ mainRef = BaseCommit(1)
    /\ generated = <<>>
    /\ tracking = NoCommit
    /\ head = "main"
    /\ index = BaseTree(1)
    /\ pc = [p \in Procs |-> "off"]
    /\ last_generated_commit = [p \in Procs |-> Empty]
    /\ last_base_commit = [p \in Procs |-> Empty]
    /\ start_commit = [p \in Procs |-> Empty]
    /\ tree = [p \in Procs |-> BaseTree(1)]
    /\ new_generated_commit = [p \in Procs |-> Empty]
    /\ diff_file = [p \in Procs |-> FALSE]
    /\ dexit = [p \in Procs |-> Running]
    /\ outcome = [p \in Procs |-> "none"]
    /\ snap = [p \in Procs |-> <<>>]
    /\ runs = 0
    /\ calls = 0
    /\ cleanStart = TRUE
    /\ genFailed = FALSE
    /\ grew = FALSE
    /\ cursor = [base |-> Empty, gen |-> Empty]
    /\ callers = {}
    /\ overlapped = FALSE

vars == <<fs, writerVars, invokerVars, orchVars, driverVars>>

\* write-files.js run on its own.
WriterInit == InitWriter /\ InvokerOff /\ OrchOff /\ DriverOff
SpecWriter == WriterInit /\ [][NextWriter]_vars

\* gemini.js run on its own.
InvokerInit == InitInvoker /\ WriterOff /\ OrchOff /\ DriverOff /\ fs = EmptyFs
SpecInvoker == InvokerInit /\ [][NextInvoker]_vars

\* llm-gen-docs.sh run on its own.
OrchInit == InitOrch /\ WriterOff /\ InvokerOff /\ DriverOff /\ fs = EmptyFs
SpecOrch == OrchInit /\ [][NextOrch]_vars

\* The driver run again and again on one repository, one run at a time.
Init == InitDriver /\ callers = {1} /\ WriterOff /\ InvokerOff /\ OrchOff
Next == NextDriver
Spec == Init /\ [][Next]_vars

\* The driver invoked once from each of two shells on one clean
\* repository, with no coordination between them.
ConcurrentInit == InitDriver /\ cleanStart /\ callers = Procs /\ WriterOff /\ InvokerOff /\ OrchOff
SpecConcurrent == ConcurrentInit /\ [][NextDriver]_vars

----------------------------------------------------------------------------
(* File Writer: properties *)

\* p is the working directory or lies beneath it (compared by path
\* segments, not by characters).
Inside(p) == p = currentDir \/ startsWith(p, currentDir \o <<"/">>)

PathOf(i) == resolve(currentDir, inputData.files[i].filename)
IsWrite(i) == inputData.files[i].new_content # ""
Entries == 1..Len(inputData.files)

MaxOf(S) == CHOOSE i \in S : \A j \in S : j <= i
MinOf(S) == CHOOSE i \in S : \A j \in S : i <= j

\* C6 (as claimed): whenever the File Writer comes to an entry whose
\* resolved path is neither the working directory nor beneath it, it
\* reports the path-escape error, exits 1 and leaves that path as it was.
C6_OutsideEntryRejected ==
    [][(wpc = "forEach" /\ idx <= Len(inputData.files) /\ ~Inside(PathOf(idx)))
         => /\ werr' = "PathEscape"
            /\ wexit' = 1
            /\ fs'[PathOf(idx)] = fs[PathOf(idx)]]_vars

\* The entries whose path the check of line 27 rejects.
Rejected == {i \in Entries : ~PathAllowed(PathOf(i))}

\* The paths entry i can change: its file and, for a write, the
\* directories leading to it.
Touches(i) == {PathOf(i)} \cup (IF IsWrite(i) THEN ProperAncestors(PathOf(i)) ELSE {})

\* C7 (as claimed): if any entry resolves outside the working directory,
\* the batch is aborted before any write: exit 1, nothing written, nothing
\* deleted, wherever the offending entry stands.
C7_AbortBeforeAnyWrite ==
    (wpc = "exited" /\ \E i \in Entries : ~Inside(PathOf(i)))
        => (wexit = 1 /\ fs = fs0 /\ wout = <<>>)

\* C7 (amended): if the path check rejects some entry, the File Writer
\* exits 1 and nothing at or after the first rejected entry takes effect:
\* every changed path is one an earlier entry touches and every log line
\* belongs to an earlier entry.  Earlier entries are not rolled back.
C7_AbortAtFirstRejected ==
    (wpc = "exited" /\ Rejected # {})
        => LET k == MinOf(Rejected)
           IN  /\ wexit = 1
               /\ \A p \in AllPaths :
                     fs[p] # fs0[p] => \E j \in 1..(k - 1) : p \in Touches(j)
               /\ Len(wout) <= k - 1
               /\ \A n \in 1..Len(wout) :
                     \E j \in n..(k - 1) : wout[n][2] = inputData.files[j].filename

\* C7 witness: the batch was aborted at a rejected entry after an earlier
\* entry had already changed the filesystem.
C7_Witness ==
    /\ wpc = "exited"
    /\ Rejected # {}
    /\ werr = "PathEscape"
    /\ idx = MinOf(Rejected)
    /\ idx > 1
    /\ fs # fs0

\* The entry that decides path p: the last one naming it.
Deciding(p) == MaxOf({i \in Entries : PathOf(i) = p})

\* The filesystem that applying the entries one by one must leave.
ExpectedFs ==
    [p \in AllPaths |->
        IF \E i \in Entries : PathOf(i) = p
        THEN IF IsWrite(Deciding(p))
             THEN inputData.files[Deciding(p)].new_content
             ELSE NoFile
        ELSE IF \E j \in Entries : IsWrite(j) /\ p \in ProperAncestors(PathOf(j))
             THEN Dir
             ELSE fs0[p]]

\* Whether the file of entry i exists when entry i is processed.
ExistsAt(i) ==
    LET earlier == {j \in 1..(i - 1) : PathOf(j) = PathOf(i)}
    IN  IF earlier = {} THEN fs0[PathOf(i)] # NoFile ELSE IsWrite(MaxOf(earlier))

RECURSIVE ExpectedLog(_)
ExpectedLog(n) ==
    IF n = 0 THEN <<>>
    ELSE ExpectedLog(n - 1) \o
         (IF IsWrite(n) THEN <<<<"Wrote", inputData.files[n].filename>>>>
          ELSE IF ExistsAt(n) THEN <<<<"Deleted", inputData.files[n].filename>>>>
          ELSE <<>>)

AllInside == \A i \in Entries : Inside(PathOf(i))

\* No entry names a directory (one that exists at the start, or one that
\* leads to another entry's path) and no entry's path lies beneath a
\* regular file (one that exists at the start, or another entry's path).
NoTypeClash ==
    \A i \in Entries :
        /\ fs0[PathOf(i)] # Dir
        /\ \A q \in ProperAncestors(PathOf(i)) : fs0[q] \in {NoFile, Dir}
        /\ \A j \in Entries : PathOf(i) \notin ProperAncestors(PathOf(j))

\* C8 (as claimed): when every filename resolves inside the working
\* directory, the File Writer exits 0 and leaves the filesystem the
\* entries, applied in order, describe, with one log line per action.
C8_AppliesInOrder ==
    (wpc = "exited" /\ inputData.kind = "files_array" /\ AllInside)
        => (wexit = 0 /\ fs = ExpectedFs /\ wout = ExpectedLog(Len(inputData.files)))

\* C8 (amended): the same, for change sets that in addition name no
\* directory and no path beneath a regular file.
C8_AppliesInOrderNoClash ==
    (wpc = "exited" /\ inputData.kind = "files_array" /\ AllInside /\ NoTypeClash)
        => (wexit = 0 /\ fs = ExpectedFs /\ wout = ExpectedLog(Len(inputData.files)))

\* C8 witness: a finished batch that overwrote a file named twice, made
\* a directory and deleted a file.
C8_Witness ==
    /\ wpc = "exited"
    /\ inputData.kind = "files_array"
    /\ AllInside
    /\ NoTypeClash
    /\ Len(inputData.files) = 2
    /\ PathOf(1) = PathOf(2)
    /\ inputData.files[1].filename # inputData.files[2].filename
    /\ IsWrite(1)
    /\ ~IsWrite(2)
    /\ fs0[PathOf(1)] # NoFile
    /\ fs[PathOf(1)] = NoFile
    /\ Len(wout) = 2

\* C9: a document that does not parse, or whose 'files' is missing or is
\* not a sequence, ends the File Writer with a non-zero exit code and with
\* nothing written, deleted or logged.
C9_MalformedInputNoWrites ==
    (wpc = "exited" /\ inputData.kind # "files_array")
        => (wexit = 1 /\ fs = fs0 /\ wout = <<>> /\ werr # "none")

\* C9 witness: the File Writer has exited on a document without 'files'.
C9_Witness ==
    /\ wpc = "exited"
    /\ inputData.kind = "no_files"
    /\ werr = "InvalidFormat"

----------------------------------------------------------------------------
(* Prompt Invoker: properties *)

\* The four conditions of C10, read off the inputs.
HasModel == configFile.kind \in {"map"} /\ configFile.model # Absent
HasGenerationConfig == configFile.kind \in {"map"} /\ configFile.generationConfig # Absent
CredentialSet == apiKey # Unset
PromptNonEmpty == \E i \in 1..Len(stdin) : stdin[i] \notin Whitespace

InvokerInputsValid ==
    HasModel /\ HasGenerationConfig /\ CredentialSet /\ PromptNonEmpty

\* C10: the Prompt Invoker calls the external API or writes to standard
\* output only if the configuration has 'model' and 'generationConfig', the
\* credential is set and the prompt is not empty after trimming; when one
\* of these fails the process exits with a non-zero code.
C10_NoApiCallUnlessValid ==
    /\ (apiCalls # <<>> \/ pout # <<>>) => InvokerInputsValid
    /\ (ppc = "exited" /\ ~InvokerInputsValid) => pexit = 1

\* C10 witness: the Prompt Invoker has refused an all-whitespace prompt
\* with a valid configuration and credential, without any API call.
C10_Witness ==
    /\ ppc = "exited"
    /\ HasModel /\ HasGenerationConfig /\ CredentialSet
    /\ stdin # <<>>
    /\ ~PromptNonEmpty
    /\ pexit = 1
    /\ apiCalls = <<>>
    /\ pout = <<>>

----------------------------------------------------------------------------
(* Commit Replay Driver: properties *)

\* The parents the k-th generated commit is to have.
ChainParents(k) ==
    IF k = 1 THEN <<BaseCommit(1)>> ELSE <<BaseCommit(k), GenCommit(k - 1)>>

\* The repository started clean, no generation step has failed and the
\* base branch is the one the first run saw.
Undisturbed == cleanStart /\ ~genFailed /\ ~grew

\* C1 (as claimed): from a clean repository without tracking branch and
\* with every generation step succeeding, run i <= n leaves the tracking
\* ref at Gi, where G1 has the parents [C1] and Gk the parents
\* [Ck, G(k-1)]; run n+1 makes no commit and leaves the ref at Gn.
C1_ReplayChain ==
    (pc[1] = "idle" /\ Undisturbed /\ runs >= 1 /\ runs <= base + 1)
        => LET i == IF runs <= base THEN runs ELSE base
           IN  /\ dexit[1] = 0
               /\ Len(generated) = i
               /\ tracking = GenCommit(i)
               /\ \A k \in 1..i : generated[k].parents = ChainParents(k)
               /\ runs = base + 1 => outcome[1] = "caught_up"

\* C2 (as claimed): a run in which llm-gen-docs.sh exits non-zero exits 1
\* and leaves refs/heads/gen-commits as it found it: absent if it was
\* absent, at the same commit otherwise.
C2_AbortLeavesTrackingBranch ==
    \A p \in Procs :
        (pc[p] = "idle" /\ outcome[p] = "aborted")
            => (dexit[p] = 1 /\ tracking = snap[p].tracking)

\* The commit a run started now would select.
WouldSelect ==
    IF tracking = NoCommit THEN FirstCommitOnBase
    ELSE NextOnBase(RevParseParent1(tracking))

\* C3 (as claimed): an aborted run leaves the repository so that the next
\* run can process the commit that failed (the working directory is clean
\* and that commit is selected again), and a run ends "caught up" only
\* with one generated commit for every base commit.
C3_BacklogCanBeDrained ==
    \A p \in Procs :
        /\ (pc[p] = "idle" /\ outcome[p] = "aborted")
              => /\ ~StatusPorcelain(fs, index, TreeOf(HeadCommit))
                 /\ WouldSelect = start_commit[p]
        /\ (pc[p] = "idle" /\ outcome[p] = "caught_up")
              => /\ Len(generated) = snap[p].base
                 /\ \A k \in 1..snap[p].base :
                       generated[k].parents[1] = BaseCommit(k)

\* C4 (as claimed): a run that follows another run and finds the tracking
\* tip's first parent to be the tip of the base branch is a no-op: exit 0,
\* "caught up", no commit made, tracking ref unchanged.
C4_SecondRunIsNoOp ==
    \A p \in Procs :
        (/\ pc[p] = "idle"
         /\ outcome[p] # "none"
         /\ snap[p].runs >= 1
         /\ snap[p].tracking.kind = "gen"
         /\ generated[snap[p].tracking.n].parents[1] = BaseCommit(snap[p].base))
            => /\ dexit[p] = 0
               /\ outcome[p] = "caught_up"
               /\ Len(generated) = snap[p].ngen
               /\ tracking = snap[p].tracking

\* The working tree of a snapshot has uncommitted changes: the index
\* differs from HEAD's tree, or a file differs from the index.
UncommittedChanges(s) ==
    \/ s.index # s.headTree
    \/ \E q \in RepoFiles :
          (IF s.fs[q] = Dir THEN NoFile ELSE s.fs[q]) # s.index[q]

\* C5: a run started on a working tree with uncommitted changes exits 1
\* at once: branches, HEAD, index, working tree and object store stay as
\* they were and llm-gen-docs.sh is not invoked.
C5_DirtyTreeNoMutation ==
    \A p \in Procs :
        (outcome[p] # "none" /\ UncommittedChanges(snap[p]))
            => /\ pc[p] = "idle"
               /\ dexit[p] = 1
               /\ outcome[p] = "dirty"
               /\ tracking = snap[p].tracking
               /\ mainRef = snap[p].mainRef
               /\ head = snap[p].head
               /\ index = snap[p].index
               /\ fs = snap[p].fs
               /\ Len(generated) = snap[p].ngen
               /\ calls = snap[p].calls

\* C5 witness: a run has ended on a working tree left dirty by an earlier
\* run (the tracking branch exists).
C5_Witness ==
    /\ pc[1] = "idle"
    /\ outcome[1] = "dirty"
    /\ UncommittedChanges(snap[1])
    /\ snap[1].tracking # NoCommit
    /\ dexit[1] = 1

----------------------------------------------------------------------------
(* Commit Replay Driver: the chain of generated commits *)

\* The generated commits reached from c through second parents, oldest
\* first.
RECURSIVE ChainFrom(_)
ChainFrom(c) ==
    IF c.kind # "gen" THEN <<>>
    ELSE LET ps == generated[c.n].parents
         IN  (IF Len(ps) = 2 THEN ChainFrom(ps[2]) ELSE <<>>) \o <<c>>

\* C13: every commit the driver made has a base commit as first parent;
\* along the tracking branch, oldest first, the first parents are C1, C2,
\* ... with none skipped and none repeated; a run adds at most one commit
\* to the tracking branch.
C13_ChainFollowsBase ==
    /\ \A k \in 1..Len(generated) :
          /\ generated[k].parents[1].kind = "base"
          /\ Len(generated[k].parents) = 2 => generated[k].parents[2].kind = "gen"
    /\ LET chain == ChainFrom(tracking)
       IN  \A i \in 1..Len(chain) :
               generated[chain[i].n].parents[1] = BaseCommit(i)
    /\ \A p \in Procs :
          outcome[p] # "none"
              => /\ Len(generated) <= snap[p].ngen + 1
                 /\ Len(ChainFrom(tracking)) <= Len(ChainFrom(snap[p].tracking)) + 1

\* C13 witness: some run was aborted, and the tracking branch holds two
\* generated commits, the second with parents [C2, G1], with base commits
\* still to be processed.
C13_Witness ==
    /\ pc[1] = "idle"
    /\ genFailed
    /\ Len(ChainFrom(tracking)) = 2
    /\ generated[tracking.n].parents = <<BaseCommit(2), GenCommit(1)>>
    /\ base > 2

----------------------------------------------------------------------------
(* Commit Replay Driver: the implicit cursor against a persisted one *)

\* The commit the reference driver selects: the first commit of the base
\* branch while its cursor record is empty, the commit after the recorded
\* source commit otherwise.
ReferenceSelect ==
    IF cursor.gen = Empty THEN FirstCommitOnBase ELSE NextOnBase(cursor.base)

\* C14 (as claimed): in every run the driver, which derives its cursor
\* from the tracking tip and that tip's first parent, selects the commit
\* the reference driver selects from its persisted cursor record, and the
\* run ends "caught up" exactly when the reference has nothing to select.
C14_ImplicitCursorMatchesRecord ==
    [][\A p \in Procs :
          (pc[p] = "select" /\ pc'[p] # "select")
              => /\ start_commit'[p] = ReferenceSelect
                 /\ (outcome'[p] = "caught_up") = (ReferenceSelect = Empty)]_vars

----------------------------------------------------------------------------
(* Commit Replay Driver: what a successful run leaves behind *)

\* C15 (as claimed): a run that ends "processed" leaves HEAD on the
\* tracking branch at the new generated commit, with index and working
\* tree equal to that commit's tree and no untracked file, whatever File
\* Change Set the File Writer applied.
C15_ProcessedLeavesCleanTree ==
    \A p \in Procs :
        (pc[p] = "idle" /\ outcome[p] = "processed")
            => /\ head = "gen-commits"
               /\ tracking = new_generated_commit[p]
               /\ ~StatusPorcelain(fs, index, TreeOf(tracking))

\* The tree that was checked out when generated commit k was made: the
\* previous tracking tip, or the first commit of the base branch.
CheckedOutTreeFor(k) ==
    IF Len(generated[k].parents) = 2
    THEN TreeOf(generated[k].parents[2])
    ELSE TreeOf(FirstCommitOnBase)

\* C16: the tree of a generated commit differs from the tree checked out
\* when its generate step started only in paths under docs/.
C16_CommitChangesOnlyDocs ==
    \A k \in 1..Len(generated) :
        \A q \in RepoFiles :
            ~UnderDocs(q) => generated[k].tree[q] = CheckedOutTreeFor(k)[q]

\* C16 witness: a commit has just been made from a working tree in which
\* the File Writer wrote a new file outside docs/ and a documentation
\* file; only the latter is in the commit's tree.
C16_Witness ==
    /\ pc[1] = "update_ref"
    /\ fs[PNotes] # NoFile
    /\ generated[Len(generated)].tree[PNotes] = NoFile
    /\ generated[Len(generated)].tree[PDocsX] = "y"
    /\ CheckedOutTreeFor(Len(generated))[PDocsX] = NoFile

----------------------------------------------------------------------------
(* File Writer: sequential processing *)

\* The filesystem after the first n entries have been applied in order.
RECURSIVE AppliedUpTo(_)
AppliedUpTo(n) ==
    IF n = 0 THEN fs0
    ELSE IF IsWrite(n)
         THEN WithFile(AppliedUpTo(n - 1), PathOf(n), inputData.files[n].new_content)
         ELSE [AppliedUpTo(n - 1) EXCEPT ![PathOf(n)] = NoFile]

\* The entries whose filename leaves the working directory.
Escaping == {i \in Entries : ~Inside(PathOf(i))}

\* C12 (as claimed): when the first entry whose filename escapes the
\* working directory stands at position k, the File Writer exits 1 with
\* exactly the entries before k applied, in order, and no entry at k or
\* after it has any effect.
C12_ExactlyEntriesBeforeEscapeApplied ==
    (wpc = "exited" /\ inputData.kind = "files_array" /\ Escaping # {})
        => LET k == MinOf(Escaping)
           IN  /\ wexit = 1
               /\ fs = AppliedUpTo(k - 1)
               /\ wout = ExpectedLog(k - 1)

----------------------------------------------------------------------------
(* Doc Update Orchestrator: properties *)

\* The three steps of the orchestrator, in order.
StepOf(i) ==
    CASE i = 1 -> [script |-> "gemini.js", config |-> "generate-docs.yaml"]
      [] i = 2 -> [script |-> "gemini.js", config |-> "update-docs.yaml"]
      [] OTHER -> [script |-> "write-files.js", config |-> ""]

\* C11: the node processes llm-gen-docs.sh starts are the suggestion call,
\* the update call and the File Writer, in this order; each is started only
\* when every earlier one exited 0, and once one of them has exited
\* non-zero the script ends with a non-zero exit code.
C11_StepsInOrderStopAtFailure ==
    /\ Len(invoked) <= 3
    /\ \A i \in 1..Len(invoked) :
          /\ invoked[i].script = StepOf(i).script
          /\ invoked[i].config = StepOf(i).config
          /\ \A j \in 1..(i - 1) : invoked[j].exit = 0
    /\ (opc = "exited" /\ \E i \in 1..Len(invoked) : invoked[i].exit # 0)
          => oexit # 0
    /\ (opc = "exited" /\ oexit = 0) => Len(invoked) = 3

\* C11 witness: the update call exited non-zero after a successful
\* suggestion call, and the script ended with exit code 1 without starting
\* the File Writer.
C11_Witness ==
    /\ opc = "exited"
    /\ Len(invoked) = 2
    /\ invoked[1].exit = 0
    /\ invoked[2].exit # 0
    /\ oexit = 1

\* C17 (as claimed): when the i-th files-to-prompt call has failed, the
\* Prompt Invoker call for the prompt being composed (the i-th node
\* process) and every later step are never started, and the script ends
\* with a non-zero exit code.
C17_DumpFailureAborts ==
    \A i \in 1..Len(dumped) :
        dumped[i] # 0
            => /\ Len(invoked) < i
               /\ opc = "exited" => oexit # 0

----------------------------------------------------------------------------
(* Commit Replay Driver: two invocations at once *)

\* The generated commits reachable from the tracking ref.
OnTrackingBranch == {ChainFrom(tracking)[i] : i \in 1..Len(ChainFrom(tracking))}

\* C18: when no run was started while another was in progress, the runs
\* lose no update: once they have ended every generated commit is on the
\* tracking branch, and no two generated commits document the same base
\* commit.  (The state of C18_Witness is reached by overlapping runs only.)
C18_SequentialRunsLoseNoUpdate ==
    (~overlapped /\ \A p \in Procs : pc[p] = "idle")
        => /\ \A k \in 1..Len(generated) : GenCommit(k) \in OnTrackingBranch
           /\ \A j, k \in 1..Len(generated) :
                 j # k => generated[j].parents[1] # generated[k].parents[1]

\* C18 witness: two overlapping runs, both started on a clean tree, selected
\* the same base commit and both ended "processed"; the tracking ref is at
\* the commit of one, and the commit of the other is not reachable from it.
C18_Witness ==
    /\ overlapped
    /\ \A p \in Procs :
          /\ pc[p] = "idle"
          /\ outcome[p] = "processed"
          /\ ~UncommittedChanges(snap[p])
    /\ start_commit[1] = start_commit[2]
    /\ \E p, q \in Procs :
          /\ tracking = new_generated_commit[q]
          /\ new_generated_commit[p] \notin OnTrackingBranch

====
